---- MODULE Spec2Model ----
(***************************************************************************)
(* py-icepacker: the two ctypes facades over the unice68 native codec,     *)
(* icepack/icepack.py (class Icepack) and icepacker/icepacker.py (class    *)
(* Icepacker).  The model covers the constructor's backend search, the     *)
(* binding of the three native entry points, and the three facade          *)
(* operations depacked_size, depack and pack.  The native codec itself is  *)
(* not part of the sources; it is modelled from its three-function         *)
(* contract (spec section 6).                                              *)
(***************************************************************************)
EXTENDS Integers, Sequences, FiniteSets, TLC

VARIABLES variant, env, backend, facade, lib, ctor, last, th

vars == <<variant, env, backend, facade, lib, ctor, last, th>>

(***************************************************************************)
(* Bounds and value sets                                                   *)
(***************************************************************************)
\* longest plain buffer handed to pack
MaxLen == 2

\* threads sharing the one facade
NumThreads == 2

\* Python's None, as a path or handle
None == "None"

\* an optional integer argument: <<>> when omitted (None), <<n>> when given
Unset == <<>>

Given(n) == <<n>>

\* byte values used in plain buffers
Byte == {0, 1}

Min(a, b) == IF a < b THEN a ELSE b

Max(a, b) == IF a > b THEN a ELSE b

\* all byte sequences of length 0..n
RECURSIVE SeqsUpTo(_)
SeqsUpTo(n) ==
    IF n = 0 THEN {<<>>}
    ELSE LET shorter == SeqsUpTo(n - 1)
         IN  shorter \cup {Append(s, b) : s \in {t \in shorter : Len(t) = n - 1}, b \in Byte}

\* Python slice s[:n] (n may exceed len(s), or be negative)
PySlice(s, n) ==
    IF n >= 0 THEN SubSeq(s, 1, Min(n, Len(s)))
    ELSE SubSeq(s, 1, Max(Len(s) + n, 0))

\* ctypes.create_string_buffer(n): n zero bytes
create_string_buffer(n) == [i \in 1..n |-> 0]

Reverse(s) == [i \in 1..Len(s) |-> s[Len(s) + 1 - i]]

(***************************************************************************)
(* The native codec, from its contract.  A compressed unit is a header     *)
(* <<Magic, packed size, depacked size>> followed by the payload.          *)
(***************************************************************************)
HeaderLen == 3

Magic == 73

\* the compressed unit an honest encoder produces for src
EncodeImage(src) == <<Magic, HeaderLen + Len(src), Len(src)>> \o Reverse(src)

\* encode(dst, dst_capacity, src, src_len): the possible (result, dst) pairs.
\* An honest backend writes at most cap bytes and returns the size it needed;
\* a faulty one may also return any code.
unice68_packer(cap, src) ==
    LET img    == EncodeImage(src)
        honest == [r |-> Len(img),
                   dst |-> [i \in 1..cap |-> IF i <= Len(img) THEN img[i] ELSE 0]]
    IN  IF backend = "honest" THEN {honest}
        ELSE {honest} \cup {[r |-> x, dst |-> create_string_buffer(cap)] : x \in {-1, 0, cap + 1}}

\* size_query(buffer): the possible <<result, packed_size_out>> pairs.  A
\* buffer shorter than the header is read past its end: any outcome.
unice68_depacked_size(buffer) ==
    LET honest ==
          IF Len(buffer) >= HeaderLen
          THEN IF buffer[1] = Magic THEN {<<buffer[3], buffer[2]>>} ELSE {<<-1, 0>>}
          ELSE {<<-1, 0>>, <<1, HeaderLen + 1>>}
    IN  IF backend = "honest" THEN honest
        ELSE honest \cup {<<-2, 0>>, <<0, 0>>, <<1, Len(buffer) + 1>>}

\* decode(dst, src) with dst of n bytes: the possible (result, dst) pairs.  A
\* src that does not hold the whole unit is read past its end: any outcome.
unice68_depacker(n, src) ==
    LET whole  == /\ Len(src) >= HeaderLen
                  /\ src[1] = Magic
                  /\ src[2] >= HeaderLen
                  /\ src[2] <= Len(src)
                  /\ src[3] = src[2] - HeaderLen
                  /\ src[3] = n
        honest ==
          IF whole
          THEN {[r |-> 0, dst |-> Reverse(SubSeq(src, HeaderLen + 1, src[2]))]}
          ELSE {[r |-> -1, dst |-> create_string_buffer(n)],
                [r |-> 0, dst |-> create_string_buffer(n)]}
    IN  IF backend = "honest" THEN honest
        ELSE honest \cup {[r |-> 1, dst |-> create_string_buffer(n)]}

(***************************************************************************)
(* The host: which candidate backend files exist and how they behave when  *)
(* loaded.  "given" is the file an explicit lib_path names.                *)
(***************************************************************************)
\* absent: no such file; noload: LoadLibrary raises OSError;
\* nosym: loads but lacks one of the three symbols; ok: usable
Status == {"absent", "noload", "nosym", "ok"}

\* the automatic candidates, highest priority first
Candidates == <<"bundled", "local", "system">>

\* scheme: get_libformat finds a naming scheme;
\* pathNames: the interpreter's importlib.resources functions take several
\* path names (Python 3.13 and later; earlier ones raise TypeError)
Envs ==
    [given : Status, bundled : Status, local : Status, system : Status,
     scheme : BOOLEAN, pathNames : BOOLEAN]

\* the hosts under which the facade operations are explored
FacadeEnvs ==
    {e \in Envs : /\ e.given = "ok"
                  /\ e.bundled \in {"ok", "absent"}
                  /\ e.local = "absent"
                  /\ e.system = "absent"
                  /\ e.scheme
                  /\ e.pathNames}

\* the exception classes the code can raise; "" is a normal return
LibError == "IcepackError"

\* result of a constructor run: the handle left in self.lib, the exception
\* class and kind raised ("" when it returns), the paths LoadLibrary was tried on
CtorResult(l, exc, err, tried) == [lib |-> l, exc |-> exc, err |-> err, tried |-> tried]

\* build_library_name(lib_base): raises when no naming scheme is determined
build_library_name(e) == e.scheme

\* ctypes.cdll.LoadLibrary(path) raises OSError
LoadFails(e, path) == e[path] \in {"absent", "noload"}

\* attribute access self.lib.unice68_* raises AttributeError
SymbolMissing(e, path) == e[path] = "nosym"

\* Icepack._setup_functions(): binds the three prototypes on self.lib; an
\* AttributeError is not caught
Icepack_setup_functions(e, path, tried) ==
    IF SymbolMissing(e, path)
    THEN CtorResult(path, "AttributeError", "", tried)
    ELSE CtorResult(path, "", "", tried)

\* Icepack.__init__(lib_path)
Icepack_init(e, arg) ==
    LET found1 == IF e.bundled # "absent" THEN "bundled" ELSE None
        found2 == IF found1 = None
                  THEN (IF e.local # "absent" THEN "local" ELSE None)
                  ELSE found1
        found3 == IF found2 = None
                  THEN (IF e.system # "absent" THEN "system" ELSE None)
                  ELSE found2
        load(path) ==
            IF LoadFails(e, path)
            THEN CtorResult(None, LibError, "LoadFailed", <<path>>)
            ELSE Icepack_setup_functions(e, path, <<path>>)
    IN  IF arg = None
        THEN IF ~build_library_name(e)
             THEN CtorResult(None, LibError, "SchemeUndetermined", <<>>)
             ELSE IF found3 = None
                  THEN CtorResult(None, LibError, "BackendNotFound", <<>>)
                  ELSE load(found3)
        ELSE load(arg)

\* Icepacker._setup_functions(lib_path): TRUE iff self.lib is a bound handle
\* afterwards; OSError and AttributeError reset self.lib to None
Icepacker_setup_functions(e, path) ==
    /\ path # None
    /\ ~LoadFails(e, path)
    /\ ~SymbolMissing(e, path)

\* ospath.join(top_dir, p) raises TypeError when p is None
JoinRaises(p) == p = None

\* Icepacker.__init__(lib_path).  Lines 110-119 try two local-build paths;
\* both are stood for by the candidate "local".
Icepacker_init(e, arg) ==
    LET lib_path == arg
        tryBundled == e.bundled # "absent"
        tried1 == IF tryBundled THEN <<"bundled">> ELSE <<>>
        tried2 == tried1 \o <<"local">>
        tried3 == IF e.system # "absent" THEN tried2 \o <<"system">> ELSE tried2
    IN  IF lib_path = None
        THEN IF ~build_library_name(e)
             THEN CtorResult(None, LibError, "SchemeUndetermined", <<>>)
             ELSE IF ~e.pathNames
             THEN CtorResult(None, "TypeError", "", <<>>)
             ELSE IF tryBundled /\ Icepacker_setup_functions(e, "bundled")
             THEN CtorResult("bundled", "", "", tried1)
             ELSE IF JoinRaises(lib_path)
             THEN CtorResult(None, "TypeError", "", tried1)
             ELSE IF Icepacker_setup_functions(e, "local")
             THEN CtorResult("local", "", "", tried2)
             ELSE IF Icepacker_setup_functions(e, IF e.system # "absent" THEN "system" ELSE None)
             THEN CtorResult("system", "", "", tried3)
             ELSE CtorResult(None, LibError, "BackendNotFound", tried3)
        ELSE CtorResult(None, "", "", <<>>)

(***************************************************************************)
(* The facade operations.  Each yields the set of its possible outcomes    *)
(* (the native calls are the only source of choice).                       *)
(***************************************************************************)
\* exc/err: exception class and kind ("" = returned); code: the native code
\* or overflow amount the error carries; value: the bytes returned;
\* size: <<result, csize>> as size_query reported it; calls: the native calls
\* made, in order; r: the last native result; cap, dst: the destination
\* buffer's size and its content after the native call
Blank ==
    [exc |-> "", err |-> "", code |-> 0, value |-> <<>>, size |-> <<>>,
     calls |-> <<>>, r |-> 0, cap |-> 0, dst |-> <<>>]

Raise(o, exc, err, code) == [o EXCEPT !.exc = exc, !.err = err, !.code = code]

\* self.lib.<fn> on a facade whose self.lib is None
NoHandle(o) == Raise(o, "AttributeError", "", 0)

\* depacked_size(buffer), identical in both classes
depacked_size(buffer) ==
    IF lib = None THEN {NoHandle(Blank)}
    ELSE {LET o == [Blank EXCEPT !.calls = <<"size_query">>, !.r = q[1], !.size = q]
          IN  IF q[1] < 0 THEN Raise(o, LibError, "SizeQueryFailed", q[1]) ELSE o
          : q \in unice68_depacked_size(buffer)}

\* mutant: the slice one byte short
DepackReturnShort(dst, n) == PySlice(dst, n - 1)

\* dst.raw[:depacked_size]
DepackReturn(dst, n) == PySlice(dst, n)

\* the common tail of depack: allocate, decode, check, slice
depack_decode(o, n, src) ==
    {LET o2 == [o EXCEPT !.calls = Append(o.calls, "decode"), !.r = d.r,
                         !.cap = n, !.dst = d.dst]
     IN  IF d.r # 0 THEN Raise(o2, LibError, "DecodeFailed", d.r)
         ELSE [o2 EXCEPT !.value = DepackReturn(d.dst, n)]
     : d \in unice68_depacker(n, src)}

\* Icepack.depack(src): the packed size is discarded
Icepack_depack(src) ==
    UNION {IF o.exc # "" THEN {o}
           ELSE IF o.size[1] <= 0 THEN {Raise(o, LibError, "InvalidDepackedSize", 0)}
           ELSE depack_decode(o, o.size[1], src)
           : o \in depacked_size(src)}

\* packed_size > len(src)
MissingPacked(packed_size, src) == packed_size > Len(src)

\* Icepacker.depack(src)
Icepacker_depack(src) ==
    UNION {IF o.exc # "" THEN {o}
           ELSE IF o.size[1] <= 0 THEN {Raise(o, LibError, "InvalidDepackedSize", 0)}
           ELSE IF MissingPacked(o.size[2], src) THEN {Raise(o, LibError, "TruncatedInput", 0)}
           ELSE depack_decode(o, o.size[1], src)
           : o \in depacked_size(src)}

\* mutant: the test is "src is None", never true of a bytes object
IsEmptyInputNever(src) == FALSE

\* not src
IsEmptyInput(src) == Len(src) = 0

\* mutant: the 16-byte margin forgotten
DefaultCapacityNoMargin(input_len) == (input_len * 9) \div 8

\* 16 + ( input_len * 9 >> 3 )
DefaultCapacity(input_len) == 16 + ((input_len * 9) \div 8)

\* mutant: the overflow test off by one
OverflowedOffByOne(result, max_size) == result > max_size + 1

\* result > max_size
Overflowed(result, max_size) == result > max_size

\* mutant: the whole destination returned, unsliced
PackReturnWhole(dst, result) == dst

\* dst.raw[:result]
PackReturn(dst, result) == PySlice(dst, result)

\* the common tail of pack: allocate, encode, check, slice
pack_encode(max_size, src) ==
    IF lib = None THEN {NoHandle([Blank EXCEPT !.cap = max_size])}
    ELSE {LET o == [Blank EXCEPT !.calls = <<"encode">>, !.r = p.r,
                                 !.cap = max_size, !.dst = p.dst]
          IN  IF p.r < 0 THEN Raise(o, LibError, "EncodeFailed", p.r)
              ELSE IF Overflowed(p.r, max_size)
              THEN Raise(o, LibError, "EncodeOverflow", p.r - max_size)
              ELSE [o EXCEPT !.value = PackReturn(p.dst, p.r)]
          : p \in unice68_packer(max_size, src)}

\* Icepack.pack(src, max_size): the default only when max_size is None
Icepack_pack(src, max_size) ==
    IF IsEmptyInput(src) THEN {Raise(Blank, LibError, "EmptyInput", 0)}
    ELSE LET m == IF max_size = Unset THEN DefaultCapacity(Len(src)) ELSE max_size[1]
         IN  IF m <= 0 THEN {Raise(Blank, LibError, "InvalidCapacity", 0)}
             ELSE pack_encode(m, src)

\* Icepacker.pack(src, max_size): "not max_size" also takes 0 as unset
Icepacker_pack(src, max_size) ==
    IF IsEmptyInput(src) THEN {Raise(Blank, LibError, "EmptyInput", 0)}
    ELSE LET m == IF max_size = Unset \/ max_size[1] = 0
                  THEN DefaultCapacity(Len(src)) ELSE max_size[1]
         IN  IF m <= 0 THEN {Raise(Blank, LibError, "InvalidCapacity", 0)}
             ELSE pack_encode(m, src)

(***************************************************************************)
(* State machine: one facade object of one of the two classes.             *)
(*   facade  "none" before construction, "live" once the constructor has   *)
(*           returned, "failed" once it has raised                         *)
(*   lib     self.lib                                                      *)
(*   ctor    the constructor call and its result                           *)
(*   last    the last facade call and its outcome; plain, pmax and rel     *)
(*           record where a compressed input came from (history only)      *)
(***************************************************************************)
Variants == {"icepack", "icepacker"}

NoCtor == [arg |-> None, exc |-> "", err |-> "", tried |-> <<>>, lib |-> None]

NoOp ==
    [op |-> "none", src |-> <<>>, max |-> Unset, plain |-> <<>>, pmax |-> Unset,
     rel |-> "", res |-> Blank]

\* the max_size arguments tried: omitted, or an integer
MaxSizes == {Unset} \cup {Given(n) : n \in -1 .. (HeaderLen + MaxLen)}

\* compressed inputs not produced by pack: empty, bad magic, a header that
\* reports depacked size 0, a header whose unit is longer than the buffer
Foreign ==
    {<<>>, <<0, 0, 0>>, <<Magic, HeaderLen + 2, 0>>, <<Magic, HeaderLen + 1, 1>>}

\* the compressed inputs offered to depacked_size and depack: the buffer the
\* last pack returned, that buffer cut by one byte or followed by one byte,
\* and the foreign buffers
Inputs ==
    (IF last.op = "pack" /\ last.res.exc = ""
     THEN LET c == last.res.value
          IN  {[buf |-> c, plain |-> last.src, pmax |-> last.max, rel |-> "exact"],
               [buf |-> PySlice(c, Len(c) - 1), plain |-> last.src, pmax |-> last.max,
                rel |-> "truncated"],
               [buf |-> c \o <<1>>, plain |-> last.src, pmax |-> last.max,
                rel |-> "extended"]}
     ELSE {})
    \cup {[buf |-> g, plain |-> <<>>, pmax |-> Unset, rel |-> "foreign"] : g \in Foreign}

Threads == 1..NumThreads

\* a thread outside any facade call; res is the outcome of its last call
Idle(o) ==
    [pc |-> "idle", op |-> "", src |-> <<>>, max |-> Unset, fn |-> "",
     size |-> <<>>, res |-> o]

Init ==
    /\ variant \in Variants
    /\ env \in FacadeEnvs
    /\ backend \in {"honest", "faulty"}
    /\ facade = "none"
    /\ lib = None
    /\ ctor = NoCtor
    /\ last = NoOp
    /\ th = [t \in Threads |-> Idle(Blank)]

InitResolve ==
    /\ variant \in Variants
    /\ env \in Envs
    /\ backend = "honest"
    /\ facade = "none"
    /\ lib = None
    /\ ctor = NoCtor
    /\ last = NoOp
    /\ th = [t \in Threads |-> Idle(Blank)]

\* Icepack(lib_path) / Icepacker(lib_path)
Construct ==
    /\ facade = "none"
    /\ \E arg \in {None, "given"} :
         LET r == IF variant = "icepack" THEN Icepack_init(env, arg)
                  ELSE Icepacker_init(env, arg)
         IN  /\ facade' = IF r.exc = "" THEN "live" ELSE "failed"
             /\ lib' = r.lib
             /\ ctor' = [arg |-> arg, exc |-> r.exc, err |-> r.err,
                         tried |-> r.tried, lib |-> r.lib]
    /\ UNCHANGED <<variant, env, backend, last, th>>

\* facade.pack(src, max_size)
Pack ==
    /\ facade = "live"
    /\ \E src \in SeqsUpTo(MaxLen), m \in MaxSizes :
         \E o \in (IF variant = "icepack" THEN Icepack_pack(src, m)
                   ELSE Icepacker_pack(src, m)) :
            last' = [op |-> "pack", src |-> src, max |-> m, plain |-> src,
                     pmax |-> m, rel |-> "", res |-> o]
    /\ UNCHANGED <<variant, env, backend, facade, lib, ctor, th>>

\* facade.depack(src)
Depack ==
    /\ facade = "live"
    /\ \E in \in Inputs :
         \E o \in (IF variant = "icepack" THEN Icepack_depack(in.buf)
                   ELSE Icepacker_depack(in.buf)) :
            last' = [op |-> "depack", src |-> in.buf, max |-> Unset, plain |-> in.plain,
                     pmax |-> in.pmax, rel |-> in.rel, res |-> o]
    /\ UNCHANGED <<variant, env, backend, facade, lib, ctor, th>>

\* facade.depacked_size(buffer)
DepackedSize ==
    /\ facade = "live"
    /\ \E in \in Inputs :
         \E o \in depacked_size(in.buf) :
            last' = [op |-> "depacked_size", src |-> in.buf, max |-> Unset,
                     plain |-> in.plain, pmax |-> in.pmax, rel |-> in.rel, res |-> o]
    /\ UNCHANGED <<variant, env, backend, facade, lib, ctor, th>>

Next == Construct \/ Pack \/ Depack \/ DepackedSize

Spec == Init /\ [][Next]_vars

(***************************************************************************)
(* Several threads calling the one facade.  Neither class takes a lock,    *)
(* and a library loaded through ctypes.cdll releases the interpreter lock  *)
(* for the duration of each foreign call, so a facade call is cut at its   *)
(* native calls: a thread is "native" from the moment the foreign function *)
(* is entered until it returns, and the Python code around it runs in one  *)
(* step.  th[t].fn is the native call in flight, th[t].size what           *)
(* size_query reported earlier in the same depack.                         *)
(***************************************************************************)
\* the calls the threads make
ThreadCalls ==
    {[op |-> "pack", src |-> <<1>>, max |-> Unset],
     [op |-> "pack", src |-> <<>>, max |-> Unset],
     [op |-> "pack", src |-> <<1>>, max |-> Given(1)],
     [op |-> "depack", src |-> EncodeImage(<<1>>), max |-> Unset],
     [op |-> "depack", src |-> <<0, 0, 0>>, max |-> Unset],
     [op |-> "depacked_size", src |-> EncodeImage(<<1>>), max |-> Unset]}

\* the outcomes of the whole call, as the facade operation yields them
Outcomes(op, src, max) ==
    IF op = "pack"
    THEN (IF variant = "icepack" THEN Icepack_pack(src, max) ELSE Icepacker_pack(src, max))
    ELSE IF op = "depack"
    THEN (IF variant = "icepack" THEN Icepack_depack(src) ELSE Icepacker_depack(src))
    ELSE depacked_size(src)

\* thread t enters a facade call and runs it up to its first native call, or
\* to the exception raised before any native call
ThreadCall(t) ==
    /\ facade = "live"
    /\ th[t].pc = "idle"
    /\ \E c \in ThreadCalls :
         LET outs == Outcomes(c.op, c.src, c.max)
         IN  \/ \E o \in outs :
                  /\ o.calls = <<>>
                  /\ th' = [th EXCEPT ![t] = Idle(o)]
             \/ /\ \E o \in outs : o.calls # <<>>
                /\ th' = [th EXCEPT ![t] =
                            [pc |-> "native", op |-> c.op, src |-> c.src, max |-> c.max,
                             fn |-> (CHOOSE o \in outs : o.calls # <<>>).calls[1],
                             size |-> <<>>, res |-> Blank]]
    /\ UNCHANGED <<variant, env, backend, facade, lib, ctor, last>>

\* the native call of thread t returns; the call ends, or (depack after
\* size_query) goes on into decode
ThreadReturn(t) ==
    /\ th[t].pc = "native"
    /\ LET me == th[t]
           outs == Outcomes(me.op, me.src, me.max)
       IN  \E o \in outs :
             /\ o.calls # <<>>
             /\ me.fn = "decode" => (Len(o.calls) = 2 /\ o.size = me.size)
             /\ IF Len(o.calls) = 2 /\ me.fn = "size_query"
                THEN th' = [th EXCEPT ![t].fn = "decode", ![t].size = o.size]
                ELSE th' = [th EXCEPT ![t] = Idle(o)]
    /\ UNCHANGED <<variant, env, backend, facade, lib, ctor, last>>

NextThreads ==
    \/ Construct
    \/ \E t \in Threads : ThreadCall(t)
    \/ \E t \in Threads : ThreadReturn(t)

SpecThreads == Init /\ [][NextThreads]_vars

\* the threads with a native call in flight on the handle
InFlight == {t \in Threads : th[t].pc = "native"}

\* construction alone, over every host
NextResolve == Construct

SpecResolve == InitResolve /\ [][NextResolve]_vars

\* the facade holds a handle with the three operations bound
Bound == facade = "live" /\ lib # None

Honest == backend = "honest"

Returned == last.res.exc = ""

Invoked(fn) == \E i \in 1..Len(last.res.calls) : last.res.calls[i] = fn

(***************************************************************************)
(* Properties                                                              *)
(***************************************************************************)
\* C1: round trip.  On a bound facade over an honest backend, pack of a
\* non-empty buffer with the default capacity returns, and depack of the
\* buffer such a pack returned yields the original bytes.
RoundTrip ==
    /\ (Bound /\ Honest /\ last.op = "pack" /\ last.src # <<>> /\ last.max = Unset)
         => Returned
    /\ (Bound /\ Honest /\ last.op = "depack" /\ last.rel = "exact" /\ last.pmax = Unset)
         => (Returned /\ last.res.value = last.plain)

\* a depack of a default-capacity pack of a two-byte, non-palindromic buffer
RoundTripWitness ==
    /\ Bound /\ Honest
    /\ last.op = "depack" /\ last.rel = "exact" /\ last.pmax = Unset
    /\ Len(last.plain) >= 2 /\ last.plain # Reverse(last.plain)
    /\ Returned /\ Invoked("decode")

\* C2: size consistency.  On a bound facade over an honest backend,
\* depacked_size of the buffer c that pack(b) returned yields
\* (len(b), len(c)).
SizeConsistency ==
    (Bound /\ Honest /\ last.op = "depacked_size" /\ last.rel = "exact")
      => (Returned /\ last.res.size = <<Len(last.plain), Len(last.src)>>)

\* depacked_size of a buffer packed under an explicit capacity
SizeConsistencyWitness ==
    /\ Bound /\ Honest
    /\ last.op = "depacked_size" /\ last.rel = "exact"
    /\ last.pmax # Unset /\ Len(last.plain) >= 1
    /\ Returned /\ last.res.size[2] = Len(last.src)

\* C3: truncation detection.  Whenever size_query reports a positive
\* depacked size and a packed size greater than len(src), depack fails with
\* TruncatedInput without invoking decode (so it never returns a buffer).
TruncationDetection ==
    (/\ last.op = "depack" /\ Invoked("size_query")
     /\ last.res.size[1] > 0
     /\ last.res.size[2] > Len(last.src))
      => (/\ last.res.exc = LibError
          /\ last.res.err = "TruncatedInput"
          /\ ~Invoked("decode"))

\* C4: overflow safety.  Whenever pack invoked encode on a destination of
\* cap bytes (cap being max_size when one > 0 was supplied) and encode
\* returned r: r > cap fails with EncodeOverflow carrying r - cap, r < 0
\* fails with EncodeFailed, and a returned buffer is exactly the first r
\* bytes of the destination with 0 <= r <= cap.
OverflowSafety ==
    (last.op = "pack" /\ Invoked("encode")) =>
      LET r == last.res.r
          cap == last.res.cap
      IN  /\ last.src # <<>>
          /\ (last.max # Unset /\ last.max[1] > 0) => cap = last.max[1]
          /\ Len(last.res.dst) = cap
          /\ r > cap => (/\ last.res.exc = LibError
                         /\ last.res.err = "EncodeOverflow"
                         /\ last.res.code = r - cap)
          /\ r < 0 => (last.res.exc = LibError /\ last.res.err = "EncodeFailed")
          /\ Returned => (/\ 0 <= r /\ r <= cap
                          /\ Len(last.res.value) = r
                          /\ last.res.value = SubSeq(last.res.dst, 1, r))

\* a pack under an explicit capacity that the encoder overran
OverflowSafetyWitness ==
    /\ last.op = "pack" /\ Invoked("encode")
    /\ last.max # Unset
    /\ last.res.r > last.res.cap
    /\ last.res.err = "EncodeOverflow"

\* C5: empty-input rejection.  pack of an empty buffer fails with EmptyInput
\* whatever max_size is, and makes no native call.
EmptyInputRejected ==
    (last.op = "pack" /\ last.src = <<>>)
      => (/\ last.res.exc = LibError
          /\ last.res.err = "EmptyInput"
          /\ last.res.calls = <<>>)

\* a pack of an empty buffer with a positive max_size supplied
EmptyInputWitness ==
    /\ last.op = "pack" /\ last.src = <<>>
    /\ last.max # Unset /\ last.max[1] > 0
    /\ last.res.err = "EmptyInput"

\* C6: capacity validation.  On a bound facade, pack of a non-empty buffer
\* with an explicitly supplied max_size <= 0 (zero included) fails with
\* InvalidCapacity, allocates nothing and makes no native call; the default
\* capacity stands in only for an omitted max_size.
CapacityValidation ==
    (/\ Bound /\ last.op = "pack" /\ last.src # <<>>
     /\ last.max # Unset /\ last.max[1] <= 0)
      => (/\ last.res.exc = LibError
          /\ last.res.err = "InvalidCapacity"
          /\ last.res.calls = <<>>
          /\ last.res.cap = 0)

\* C7: facade lifecycle.  A constructor that has run either raised or left
\* the facade bound, and the handle is the one construction left.
FacadeLifecycle ==
    /\ facade # "none" => (facade = "failed" \/ Bound)
    /\ facade = "live" => lib = ctor.lib

\* the automatic candidates that are usable
Usable(c) == env[c] = "ok"

\* the index of the highest-priority usable automatic candidate, 0 if none
FirstUsable ==
    IF \E i \in 1..Len(Candidates) : Usable(Candidates[i])
    THEN CHOOSE i \in 1..Len(Candidates) :
           /\ Usable(Candidates[i])
           /\ \A k \in 1..(i - 1) : ~Usable(Candidates[k])
    ELSE 0

Constructed == facade # "none"

\* C8: resolver exhaustion.  With no explicit path and no usable candidate,
\* construction fails, and with the library's own exception class (the one
\* class stands for every error kind of the module), never another one.
ResolverExhaustion ==
    (Constructed /\ ctor.arg = None /\ FirstUsable = 0)
      => (facade = "failed" /\ ctor.exc = LibError)

\* C9: candidate rejection is not fatal.  With no explicit path, when a
\* candidate that fails to load or lacks a symbol precedes the first usable
\* one, construction binds that usable candidate.
RejectionNotFatal ==
    (/\ Constructed /\ ctor.arg = None /\ env.scheme
     /\ FirstUsable > 1
     /\ \E k \in 1..(FirstUsable - 1) : env[Candidates[k]] \in {"noload", "nosym"})
      => (facade = "live" /\ lib = Candidates[FirstUsable])

\* C10: search order.  A usable explicit path is the one bound; without an
\* explicit path a bound handle is the highest-priority usable candidate;
\* and loading is attempted in priority order only.
SearchOrder ==
    /\ (Constructed /\ ctor.arg = "given" /\ env.given = "ok")
         => (facade = "live" /\ lib = "given")
    /\ (Constructed /\ ctor.arg = None /\ facade = "live")
         => (FirstUsable > 0 /\ lib = Candidates[FirstUsable])
    /\ (Constructed /\ ctor.arg = None)
         => \A i, j \in 1..Len(ctor.tried) :
              i < j => \E a, b \in 1..Len(Candidates) :
                         /\ a < b
                         /\ ctor.tried[i] = Candidates[a]
                         /\ ctor.tried[j] = Candidates[b]

\* C11: no partial success in depack.  A depack that returns has called
\* size_query and then decode, decode returned 0, and the buffer's length is
\* the (positive) depacked size size_query reported.  A negative size_query
\* result fails with SizeQueryFailed carrying the code, a reported size of 0
\* with InvalidDepackedSize, both without invoking decode; a non-zero decode
\* result fails with DecodeFailed carrying the code.
NoPartialDepack ==
    last.op = "depack" =>
      /\ Returned => (/\ last.res.calls = <<"size_query", "decode">>
                      /\ last.res.r = 0
                      /\ last.res.size[1] > 0
                      /\ Len(last.res.value) = last.res.size[1])
      /\ (Invoked("size_query") /\ last.res.size[1] < 0)
           => (/\ last.res.exc = LibError
               /\ last.res.err = "SizeQueryFailed"
               /\ last.res.code = last.res.size[1]
               /\ ~Invoked("decode"))
      /\ (Invoked("size_query") /\ last.res.size[1] = 0)
           => (/\ last.res.exc = LibError
               /\ last.res.err = "InvalidDepackedSize"
               /\ ~Invoked("decode"))
      /\ (Invoked("decode") /\ last.res.r # 0)
           => (/\ last.res.exc = LibError
               /\ last.res.err = "DecodeFailed"
               /\ last.res.code = last.res.r
               /\ last.res.value = <<>>)

\* a depack that returned a buffer of the two bytes size_query announced
NoPartialDepackWitness ==
    /\ last.op = "depack" /\ Returned
    /\ last.res.size[1] = 2
    /\ Len(last.res.value) = 2

\* C12: mutual exclusion on the handle.  No two native calls on the
\* facade's handle are in flight at the same time.
MutualExclusion == Cardinality(InFlight) <= 1

====
